---- MODULE Spec2Model ----
(***************************************************************************)
(* Model of nitishm/rejson-struct (main.go): a Student with an embedded    *)
(* *StudentDetails is stored in Redis three ways: flattened into a hash    *)
(* with HMSET (redigo's Args.AddFlat), as a ReJSON document with JSON.SET, *)
(* and as a JSON string in the hash field "JSON" with HSET.                *)
(*                                                                         *)
(* Texts (Go strings, []byte replies, hash field names and values) are     *)
(* sequences of one-character strings, so that encoding/json, fmt and the  *)
(* store's own JSON serializer are computed character by character.        *)
(* Characters are printable ASCII; '"', '\' and '<' are the ones the       *)
(* encoders treat specially.                                               *)
(***************************************************************************)
EXTENDS Integers, Sequences, FiniteSets, TLC

VARIABLES store, connUp, last, written, pc, trace, initStore, nops

vars == <<store, connUp, last, written, pc, trace, initStore, nops>>

----------------------------------------------------------------------------
(* Texts *)

Q == "\""
BS == "\\"

TInfo == <<"I", "n", "f", "o">>
TRank == <<"R", "a", "n", "k">>
TJSON == <<"J", "S", "O", "N">>
Tinfo == <<"i", "n", "f", "o">>
Trank == <<"r", "a", "n", "k">>
TFirstName == <<"F", "i", "r", "s", "t", "N", "a", "m", "e">>
TLastName == <<"L", "a", "s", "t", "N", "a", "m", "e">>
TMajor == <<"M", "a", "j", "o", "r">>
TJohn == <<"J", "o", "h", "n">>
TDoe == <<"D", "o", "e">>
TCSE == <<"C", "S", "E">>
TNilPtr == <<"<", "n", "i", "l", ">">>
TDot == <<".">>
TInfoMajor == <<"i", "n", "f", "o", ".", "M", "a", "j", "o", "r">>
JohnDoeFlat == <<"&", "{", "J", "o", "h", "n", " ", "D", "o", "e", " ", "C", "S", "E", "}">>
JohnDoeText == <<"{", "\"", "i", "n", "f", "o", "\"", ":", "{", "\"", "F", "i", "r", "s", "t", "N", "a", "m", "e", "\"", ":", "\"", "J", "o", "h", "n", "\"", ",", "\"", "L", "a", "s", "t", "N", "a", "m", "e", "\"", ":", "\"", "D", "o", "e", "\"", ",", "\"", "M", "a", "j", "o", "r", "\"", ":", "\"", "C", "S", "E", "\"", "}", ",", "\"", "r", "a", "n", "k", "\"", ":", "1", "}">>
CSEText == <<"\"", "C", "S", "E", "\"">>

----------------------------------------------------------------------------
(* The Go values of main.go *)

\* type StudentDetails struct { FirstName, LastName, Major string }, behind
\* the pointer Student.Info; nil marks the nil pointer.
Details(first, lst, major) ==
    [nil |-> FALSE, FirstName |-> first, LastName |-> lst, Major |-> major]

NilDetails == [nil |-> TRUE, FirstName |-> <<>>, LastName |-> <<>>, Major |-> <<>>]

\* type Student struct { Info *StudentDetails; Rank int }. The write functions
\* take an interface{}: kind tells a Student from a value of another type.
Student(info, rank) == [kind |-> "Student", Info |-> info, Rank |-> rank]

\* A value encoding/json cannot encode and AddFlat cannot flatten (a channel).
ChanValue == [kind |-> "chan", Info |-> NilDetails, Rank |-> 0]

\* student := Student{Info: &StudentDetails{"John", "Doe", "CSE"}, Rank: 1}
JohnDoe == Student(Details(TJohn, TDoe, TCSE), 1)

TrickyDetails == Details(<<>>, <<Q, "<">>, <<BS, "a">>)

\* The Students written: main's, one whose strings need escaping or are
\* empty and whose Rank is 0, and one without Info and with a negative Rank.
Students ==
    { JohnDoe,
      Student(TrickyDetails, 0),
      Student(NilDetails, 0 - 12) }

Values == Students \cup {ChanValue}

\* The keys of main, and one main never names.
Keys == {"JohnDoeHash", "JohnDoeJSON", "JohnDoeHashJSON", "Other"}

ErrNone == "nil"
ErrClosed == "use of closed network connection"
ErrDial == "dial tcp: connection refused"
ErrWrongType == "WRONGTYPE Operation against a key holding the wrong kind of value"
ErrArgs == "ERR wrong number of arguments"
ErrSyntax == "invalid JSON"
ErrType == "json: cannot unmarshal value into Go struct field"
ErrPath == "ERR path does not exist"
ErrUnsupported == "json: unsupported type"
ErrNXXX == "Both NX and XX cannot be true."

----------------------------------------------------------------------------
(* strconv and fmt *)

DigitChars == <<"0", "1", "2", "3", "4", "5", "6", "7", "8", "9">>

RECURSIVE UItoa(_)
UItoa(n) == IF n < 10 THEN <<DigitChars[n + 1]>>
            ELSE UItoa(n \div 10) \o <<DigitChars[(n % 10) + 1]>>

Itoa(n) == IF n < 0 THEN <<"-">> \o UItoa(0 - n) ELSE UItoa(n)

\* fmt.Fprint of a *StudentDetails: "&{First Last Major}", "<nil>" for nil.
SprintDetails(d) ==
    IF d.nil THEN TNilPtr
    ELSE <<"&", "{">> \o d.FirstName \o <<" ">> \o d.LastName \o <<" ">>
         \o d.Major \o <<"}">>

----------------------------------------------------------------------------
(* encoding/json: Marshal *)

\* A faulty variant: strings copied into the JSON text without escaping.
GoEscapeCharRaw(c) == <<c>>

\* encodeState.string with escapeHTML: '"' and '\' get a backslash, '<' is
\* written <, other printable ASCII is copied.
GoEscapeChar(c) ==
    IF c = Q THEN <<BS, Q>>
    ELSE IF c = BS THEN <<BS, BS>>
    ELSE IF c = "<" THEN <<BS, "u", "0", "0", "3", "c">>
    ELSE <<c>>

RECURSIVE GoEscape(_)
GoEscape(s) == IF s = <<>> THEN <<>> ELSE GoEscapeChar(Head(s)) \o GoEscape(Tail(s))

GoString(s) == <<Q>> \o GoEscape(s) \o <<Q>>

\* StudentDetails has no tags: every field is written under its Go name.
MarshalDetails(d) ==
    <<"{">> \o GoString(TFirstName) \o <<":">> \o GoString(d.FirstName)
    \o <<",">> \o GoString(TLastName) \o <<":">> \o GoString(d.LastName)
    \o <<",">> \o GoString(TMajor) \o <<":">> \o GoString(d.Major) \o <<"}">>

\* A faulty variant: Student without its json tags: both fields always written, under
\* their Go names.
MarshalStudentUntagged(s) ==
    <<"{">> \o GoString(TInfo) \o <<":">>
    \o (IF s.Info.nil THEN <<"n", "u", "l", "l">> ELSE MarshalDetails(s.Info))
    \o <<",">> \o GoString(TRank) \o <<":">> \o Itoa(s.Rank) \o <<"}">>

\* Student: `json:"info,omitempty"` (a nil pointer is omitted) and
\* `json:"rank,omitempty"` (a zero Rank is omitted).
MarshalStudent(s) ==
    LET info == IF s.Info.nil THEN <<>>
                ELSE GoString(Tinfo) \o <<":">> \o MarshalDetails(s.Info)
        rank == IF s.Rank = 0 THEN <<>>
                ELSE GoString(Trank) \o <<":">> \o Itoa(s.Rank)
        sep  == IF info # <<>> /\ rank # <<>> THEN <<",">> ELSE <<>>
    IN  <<"{">> \o info \o sep \o rank \o <<"}">>

\* json.Marshal(value): [err, text].
Marshal(value) ==
    IF value.kind = "Student"
    THEN [err |-> ErrNone, text |-> MarshalStudent(value)]
    ELSE [err |-> ErrUnsupported, text |-> <<>>]

----------------------------------------------------------------------------
(* JSON values and the parser (encoding/json's decoder, and the store's) *)

JStr(s) == [t |-> "str", s |-> s, n |-> 0, m |-> <<>>]
JNum(n) == [t |-> "num", s |-> <<>>, n |-> n, m |-> <<>>]
JObj(m) == [t |-> "obj", s |-> <<>>, n |-> 0, m |-> m]
JBad    == [t |-> "bad", s |-> <<>>, n |-> 0, m |-> <<>>]

PFail == [ok |-> FALSE, val |-> JBad, pos |-> 0]
POk(v, p) == [ok |-> TRUE, val |-> v, pos |-> p]

At(t, i) == IF i >= 1 /\ i <= Len(t) THEN t[i] ELSE "EOF"

IsDigit(c) == c \in {"0", "1", "2", "3", "4", "5", "6", "7", "8", "9"}

DigitVal(c) == CHOOSE d \in 0..9 : DigitChars[d + 1] = c

\* The body of a string from position i (after the opening quote) to its
\* closing quote, escapes decoded.
RECURSIVE ScanString(_, _, _)
ScanString(t, i, acc) ==
    LET c == At(t, i) IN
    IF c = "EOF" THEN PFail
    ELSE IF c = Q THEN POk(JStr(acc), i + 1)
    ELSE IF c = BS THEN
        LET e == At(t, i + 1) IN
        IF e \in {Q, BS, "/"} THEN ScanString(t, i + 2, Append(acc, e))
        ELSE IF e = "u" /\ SubSeq(t, i + 2, i + 5) = <<"0", "0", "3", "c">>
             THEN ScanString(t, i + 6, Append(acc, "<"))
        ELSE PFail
    ELSE ScanString(t, i + 1, Append(acc, c))

RECURSIVE ScanDigits(_, _, _)
ScanDigits(t, i, acc) ==
    IF IsDigit(At(t, i)) THEN ScanDigits(t, i + 1, acc * 10 + DigitVal(At(t, i)))
    ELSE POk(JNum(acc), i)

ParseNumber(t, i) ==
    IF At(t, i) = "-"
    THEN IF IsDigit(At(t, i + 1))
         THEN LET r == ScanDigits(t, i + 1, 0) IN POk(JNum(0 - r.val.n), r.pos)
         ELSE PFail
    ELSE ScanDigits(t, i, 0)

RECURSIVE ParseValue(_, _)
RECURSIVE ParseMembers(_, _, _)

\* The members of an object from position i (at a key), up to the closing brace.
ParseMembers(t, i, acc) ==
    IF At(t, i) # Q THEN PFail
    ELSE LET k == ScanString(t, i + 1, <<>>) IN
         IF ~k.ok \/ At(t, k.pos) # ":" THEN PFail
         ELSE LET v == ParseValue(t, k.pos + 1) IN
              IF ~v.ok THEN PFail
              ELSE LET m == Append(acc, [k |-> k.val.s, v |-> v.val]) IN
                   IF At(t, v.pos) = "," THEN ParseMembers(t, v.pos + 1, m)
                   ELSE IF At(t, v.pos) = "}" THEN POk(JObj(m), v.pos + 1)
                   ELSE PFail

ParseValue(t, i) ==
    LET c == At(t, i) IN
    IF c = "{" THEN IF At(t, i + 1) = "}" THEN POk(JObj(<<>>), i + 2)
                    ELSE ParseMembers(t, i + 1, <<>>)
    ELSE IF c = Q THEN ScanString(t, i + 1, <<>>)
    ELSE IF c = "-" \/ IsDigit(c) THEN ParseNumber(t, i)
    ELSE PFail

\* A whole text: one value and nothing after it.
ParseJSON(t) ==
    LET r == ParseValue(t, 1) IN
    IF r.ok /\ r.pos = Len(t) + 1 THEN r ELSE PFail

\* The last member named k of object o (the decoder lets a later duplicate win).
HasMember(o, k) == \E i \in 1..Len(o.m) : o.m[i].k = k

Member(o, k) ==
    o.m[CHOOSE i \in 1..Len(o.m) :
            o.m[i].k = k /\ \A j \in (i + 1)..Len(o.m) : o.m[j].k # k].v

\* json.Unmarshal(text, &Student{}): [err, student]. A missing key leaves the
\* field at its zero value, "info" allocates the StudentDetails, and a value
\* of the wrong JSON type is an UnmarshalTypeError.
WellTyped(o, k, t) == HasMember(o, k) => Member(o, k).t = t

StrMember(o, k) == IF HasMember(o, k) THEN Member(o, k).s ELSE <<>>

Unmarshal(text) ==
    LET r == ParseJSON(text)
        zero == Student(NilDetails, 0)
    IN
    IF ~r.ok \/ r.val.t # "obj" THEN [err |-> ErrSyntax, student |-> zero]
    ELSE LET o == r.val
             d == IF HasMember(o, Tinfo) THEN Member(o, Tinfo) ELSE JObj(<<>>)
         IN
         IF ~(/\ WellTyped(o, Tinfo, "obj") /\ WellTyped(o, Trank, "num")
              /\ WellTyped(d, TFirstName, "str") /\ WellTyped(d, TLastName, "str")
              /\ WellTyped(d, TMajor, "str"))
         THEN [err |-> ErrType, student |-> zero]
         ELSE [err |-> ErrNone,
               student |->
                   Student(IF HasMember(o, Tinfo)
                           THEN Details(StrMember(d, TFirstName), StrMember(d, TLastName),
                                        StrMember(d, TMajor))
                           ELSE NilDetails,
                           IF HasMember(o, Trank) THEN Member(o, Trank).n ELSE 0)]

----------------------------------------------------------------------------
(* The Redis server behind conn: hashes and ReJSON documents *)

\* What a key holds: nothing, a hash (its fields in insertion order) or a
\* ReJSON document.
NoEntry == [type |-> "none", hash |-> <<>>, doc |-> JBad]
HashEntry(h) == [type |-> "hash", hash |-> h, doc |-> JBad]
JSONEntry(v) == [type |-> "json", hash |-> <<>>, doc |-> v]

EmptyStore == [k \in Keys |-> NoEntry]

HasField(h, f) == \E i \in 1..Len(h) : h[i].f = f

FieldIndex(h, f) == CHOOSE i \in 1..Len(h) : h[i].f = f

\* One field set in a hash: replaced in place, or appended.
SetField(h, f, v) ==
    IF HasField(h, f) THEN [h EXCEPT ![FieldIndex(h, f)].v = v]
    ELSE Append(h, [f |-> f, v |-> v])

\* The fields of args = <<f1, v1, f2, v2, ...>> set from left to right.
RECURSIVE SetFields(_, _)
SetFields(h, args) ==
    IF Len(args) < 2 THEN h
    ELSE SetFields(SetField(h, args[1], args[2]), SubSeq(args, 3, Len(args)))

\* HGETALL's reply: field, value, field, value, ...
RECURSIVE FlatHash(_)
FlatHash(h) == IF h = <<>> THEN <<>> ELSE <<Head(h).f, Head(h).v>> \o FlatHash(Tail(h))

\* The store's JSON serializer: '"' and '\' escaped, '<' left as it is.
StoreEscapeChar(c) == IF c \in {Q, BS} THEN <<BS, c>> ELSE <<c>>

RECURSIVE StoreEscape(_)
StoreEscape(s) ==
    IF s = <<>> THEN <<>> ELSE StoreEscapeChar(Head(s)) \o StoreEscape(Tail(s))

RECURSIVE Serialize(_)
RECURSIVE SerializeMembers(_)

SerializeMembers(m) ==
    IF m = <<>> THEN <<>>
    ELSE <<Q>> \o StoreEscape(Head(m).k) \o <<Q, ":">> \o Serialize(Head(m).v)
         \o (IF Len(m) > 1 THEN <<",">> ELSE <<>>) \o SerializeMembers(Tail(m))

Serialize(v) ==
    IF v.t = "obj" THEN <<"{">> \o SerializeMembers(v.m) \o <<"}">>
    ELSE IF v.t = "str" THEN <<Q>> \o StoreEscape(v.s) \o <<Q>>
    ELSE Itoa(v.n)

\* A path split at its dots: "" and "." are the root, "info.Major" and
\* ".info.Major" name a member of a member.
RECURSIVE SplitPath(_, _, _)
SplitPath(p, cur, acc) ==
    IF p = <<>> THEN (IF cur = <<>> THEN acc ELSE Append(acc, cur))
    ELSE IF Head(p) = "." THEN SplitPath(Tail(p), <<>>,
                                         IF cur = <<>> THEN acc ELSE Append(acc, cur))
    ELSE SplitPath(Tail(p), Append(cur, Head(p)), acc)

IsRoot(path) == SplitPath(path, <<>>, <<>>) = <<>>

\* The value below v along the member names ks: [ok, val].
RECURSIVE Lookup(_, _)
Lookup(v, ks) ==
    IF ks = <<>> THEN [ok |-> TRUE, val |-> v]
    ELSE IF v.t = "obj" /\ HasMember(v, Head(ks)) THEN Lookup(Member(v, Head(ks)), Tail(ks))
    ELSE [ok |-> FALSE, val |-> JBad]

\* Replies as redigo hands them over.
NilReply == [kind |-> "nil", bulk |-> <<>>, array |-> <<>>]
StatusOK == [kind |-> "status", bulk |-> <<"O", "K">>, array |-> <<>>]
IntReply(n) == [kind |-> "int", bulk |-> Itoa(n), array |-> <<>>]
BulkReply(t) == [kind |-> "bulk", bulk |-> t, array |-> <<>>]
ArrayReply(a) == [kind |-> "array", bulk |-> <<>>, array |-> a]

\* What a call returns to the functions of main.go: the store after it, the
\* error, the reply, and the command handed to conn.Do ("none": no command).
Result(st, err, reply, cmd) == [store |-> st, err |-> err, reply |-> reply, cmd |-> cmd]

Failed(st, err, cmd) == Result(st, err, NilReply, cmd)

\* HMSET key f v [f v ...]
HMSET(st, key, args) ==
    IF Len(args) < 2 \/ Len(args) % 2 # 0 THEN Failed(st, ErrArgs, "HMSET")
    ELSE IF st[key].type = "json" THEN Failed(st, ErrWrongType, "HMSET")
    ELSE Result([st EXCEPT ![key] = HashEntry(SetFields(st[key].hash, args))],
                ErrNone, StatusOK, "HMSET")

\* HSET key f v: replies 1 for a new field, 0 for one it replaced.
HSET(st, key, args) ==
    IF Len(args) # 2 THEN Failed(st, ErrArgs, "HSET")
    ELSE IF st[key].type = "json" THEN Failed(st, ErrWrongType, "HSET")
    ELSE Result([st EXCEPT ![key] = HashEntry(SetField(st[key].hash, args[1], args[2]))],
                ErrNone, IntReply(IF HasField(st[key].hash, args[1]) THEN 0 ELSE 1), "HSET")

\* HGETALL key: every field and value; an empty array when the key is absent.
HGETALL(st, key, args) ==
    IF Len(args) # 0 THEN Failed(st, ErrArgs, "HGETALL")
    ELSE IF st[key].type = "json" THEN Failed(st, ErrWrongType, "HGETALL")
    ELSE Result(st, ErrNone, ArrayReply(FlatHash(st[key].hash)), "HGETALL")

\* HGET key f: the value, or nil when the key or the field is absent.
HGET(st, key, args) ==
    IF Len(args) # 1 THEN Failed(st, ErrArgs, "HGET")
    ELSE IF st[key].type = "json" THEN Failed(st, ErrWrongType, "HGET")
    ELSE IF ~HasField(st[key].hash, args[1]) THEN Result(st, ErrNone, NilReply, "HGET")
    ELSE Result(st, ErrNone,
                BulkReply(st[key].hash[FieldIndex(st[key].hash, args[1])].v), "HGET")

\* JSON.SET key path json [NX | XX], at the root path: a violated NX or XX
\* replies nil and changes nothing.
JSONSETCmd(st, key, args) ==
    IF Len(args) < 2 \/ Len(args) > 3 THEN Failed(st, ErrArgs, "JSON.SET")
    ELSE IF st[key].type = "hash" THEN Failed(st, ErrWrongType, "JSON.SET")
    ELSE IF ~ParseJSON(args[2]).ok THEN Failed(st, ErrSyntax, "JSON.SET")
    ELSE IF ~IsRoot(args[1]) THEN Failed(st, ErrPath, "JSON.SET")
    ELSE IF Len(args) = 3 /\ args[3] = <<"N", "X">> /\ st[key].type = "json"
         THEN Result(st, ErrNone, NilReply, "JSON.SET")
    ELSE IF Len(args) = 3 /\ args[3] = <<"X", "X">> /\ st[key].type = "none"
         THEN Result(st, ErrNone, NilReply, "JSON.SET")
    ELSE Result([st EXCEPT ![key] = JSONEntry(ParseJSON(args[2]).val)],
                ErrNone, StatusOK, "JSON.SET")

\* JSON.GET key path: the value at the path, serialized; nil when the key is
\* absent.
JSONGETCmd(st, key, args) ==
    IF Len(args) # 1 THEN Failed(st, ErrArgs, "JSON.GET")
    ELSE IF st[key].type = "hash" THEN Failed(st, ErrWrongType, "JSON.GET")
    ELSE IF st[key].type = "none" THEN Result(st, ErrNone, NilReply, "JSON.GET")
    ELSE LET v == Lookup(st[key].doc, SplitPath(args[1], <<>>, <<>>)) IN
         IF ~v.ok THEN Failed(st, ErrPath, "JSON.GET")
         ELSE Result(st, ErrNone, BulkReply(Serialize(v.val)), "JSON.GET")

\* conn.Do(cmd, key, args...): a closed connection fails the call before the
\* server sees it.
Do(st, up, cmd, key, args) ==
    IF ~up THEN Failed(st, ErrClosed, cmd)
    ELSE CASE cmd = "HMSET" -> HMSET(st, key, args)
           [] cmd = "HSET" -> HSET(st, key, args)
           [] cmd = "HGETALL" -> HGETALL(st, key, args)
           [] cmd = "HGET" -> HGET(st, key, args)
           [] cmd = "JSON.SET" -> JSONSETCmd(st, key, args)
           [] cmd = "JSON.GET" -> JSONGETCmd(st, key, args)

----------------------------------------------------------------------------
(* redigo and go-rejson, as main.go calls them *)

\* redis.Args{key}.AddFlat(value), each argument as conn.Do writes it: a
\* struct gives its fields' names and values (the pointer Info through
\* fmt.Fprint, the int Rank through strconv), any other value one argument.
AddFlat(value) ==
    IF value.kind = "Student"
    THEN <<TInfo, SprintDetails(value.Info), TRank, Itoa(value.Rank)>>
    ELSE <<<<"0", "x", "c", "0">>>>

\* redis.StringMap(reply, err): [err, map]; a field named twice keeps its
\* last value.
StringMap(r) ==
    IF r.err # ErrNone THEN [err |-> r.err, map |-> <<>>]
    ELSE IF r.reply.kind # "array" \/ Len(r.reply.array) % 2 # 0
         THEN [err |-> ErrArgs, map |-> <<>>]
    ELSE LET a == r.reply.array
             fields == {a[2 * i - 1] : i \in 1..(Len(a) \div 2)}
         IN [err |-> ErrNone,
             map |-> [f \in fields |->
                        a[2 * (CHOOSE i \in 1..(Len(a) \div 2) :
                                 a[2 * i - 1] = f
                                 /\ \A j \in (i + 1)..(Len(a) \div 2) : a[2 * j - 1] # f)]]]

\* rejson.JSONSet(conn, key, path, obj, NX, XX)
JSONSet(st, up, key, path, obj, NX, XX) ==
    IF NX /\ XX THEN Failed(st, ErrNXXX, "none")
    ELSE IF Marshal(obj).err # ErrNone THEN Failed(st, Marshal(obj).err, "none")
    ELSE Do(st, up, "JSON.SET", key,
            <<path, Marshal(obj).text>>
            \o (IF NX THEN <<<<"N", "X">>>> ELSE IF XX THEN <<<<"X", "X">>>> ELSE <<>>))

\* rejson.JSONGet(conn, key, path)
JSONGet(st, up, key, path) == Do(st, up, "JSON.GET", key, <<path>>)

----------------------------------------------------------------------------
(* The functions of main.go *)

\* A faulty variant: an empty reply taken for an error (redis.ErrNil).
getStructHashNilIsError(st, up, key) ==
    LET r == Do(st, up, "HGETALL", "JohnDoeHash", <<>>) IN
    IF r.err = ErrNone /\ r.reply.array = <<>>
    THEN Failed(st, "redigo: nil returned", "HGETALL")
    ELSE r

\* A faulty variant: the write made "only if absent" (NX).
addStructReJSONOnlyIfAbsent(st, up, key, value) ==
    JSONSet(st, up, key, TDot, value, TRUE, FALSE)

\* A faulty variant: the document read at the path .info.
getStructReJSONAtInfo(st, up, key) == JSONGet(st, up, key, <<".">> \o Tinfo)

\* A faulty variant: the error of json.Marshal not checked before HSET.
addStructHashWithJSONUnchecked(st, up, key, value) ==
    Do(st, up, "HSET", key, <<TJSON, Marshal(value).text>>)

addStructHash(st, up, key, value) == Do(st, up, "HMSET", key, AddFlat(value))

getStructHash(st, up, key) == Do(st, up, "HGETALL", "JohnDoeHash", <<>>)

addStructReJSON(st, up, key, value) == JSONSet(st, up, key, TDot, value, FALSE, FALSE)

getStructReJSON(st, up, key) == JSONGet(st, up, key, <<>>)

addStructHashWithJSON(st, up, key, value) ==
    LET b == Marshal(value) IN
    IF b.err # ErrNone THEN Failed(st, b.err, "none")
    ELSE Do(st, up, "HSET", key, <<TJSON, b.text>>)

getStructHashWithJSON(st, up, key) == Do(st, up, "HGET", key, <<TJSON>>)

----------------------------------------------------------------------------
(* State *)

NoValue == [kind |-> "none", Info |-> NilDetails, Rank |-> 0]

\* The call made last: the function, its key and value, the path and the
\* write condition its caller wanted, what it returned, and the store and
\* the connection before it.
Call(op, key, value, path, req, r, before, up) ==
    [op |-> op, key |-> key, value |-> value, path |-> path, req |-> req,
     err |-> r.err, reply |-> r.reply, cmd |-> r.cmd, before |-> before, up |-> up]

NoCall == Call("none", "JohnDoeHash", NoValue, <<>>, "none",
               Failed(EmptyStore, ErrNone, "none"), EmptyStore, TRUE)

WriteOps == {"addStructHash", "addStructReJSON", "addStructHashWithJSON"}

NeverWritten == [op |-> "none", value |-> NoValue]

\* A call's effect on the state: the store after it, the call as the last
\* one, and, for a write the server applied, the key's latest write.
Called(op, key, value, path, req, r) ==
    /\ store' = r.store
    /\ last' = Call(op, key, value, path, req, r, store, connUp)
    /\ written' = IF op \in WriteOps /\ r.err = ErrNone /\ r.reply.kind # "nil"
                  THEN [written EXCEPT ![key] = [op |-> op, value |-> value]]
                  ELSE written

----------------------------------------------------------------------------
(* The six functions called in any order, on two keys *)

OpKeys == {"JohnDoeHash", "JohnDoeJSON"}

Paths == {<<>>, TInfoMajor}

\* The number of calls made in one behaviour.
MaxOps == 3

Reqs == {"none", "NX"}

InitOps ==
    /\ store = EmptyStore
    /\ connUp = TRUE
    /\ last = NoCall
    /\ written = [k \in Keys |-> NeverWritten]
    /\ pc = "ops"
    /\ trace = <<>>
    /\ initStore = EmptyStore
    /\ nops = 0

WriteFlattened ==
    \E k \in OpKeys, v \in Values :
        /\ pc = "ops"
        /\ nops < MaxOps
        /\ nops' = nops + 1
        /\ Called("addStructHash", k, v, <<>>, "none", addStructHash(store, connUp, k, v))
        /\ UNCHANGED <<connUp, pc, trace, initStore>>

ReadFlattened ==
    \E k \in OpKeys :
        /\ pc = "ops"
        /\ nops < MaxOps
        /\ nops' = nops + 1
        /\ Called("getStructHash", k, NoValue, <<>>, "none", getStructHash(store, connUp, k))
        /\ UNCHANGED <<connUp, pc, trace, initStore>>

\* req is the condition the caller wants; addStructReJSON has no parameter
\* to pass it in.
WriteJSONNative ==
    \E k \in OpKeys, v \in Values, req \in Reqs :
        /\ pc = "ops"
        /\ nops < MaxOps
        /\ nops' = nops + 1
        /\ Called("addStructReJSON", k, v, TDot, req, addStructReJSON(store, connUp, k, v))
        /\ UNCHANGED <<connUp, pc, trace, initStore>>

\* path is the path the caller wants; getStructReJSON has no parameter to
\* pass it in.
ReadJSONNative ==
    \E k \in OpKeys, path \in Paths :
        /\ pc = "ops"
        /\ nops < MaxOps
        /\ nops' = nops + 1
        /\ Called("getStructReJSON", k, NoValue, path, "none", getStructReJSON(store, connUp, k))
        /\ UNCHANGED <<connUp, pc, trace, initStore>>

WriteJSONInHash ==
    \E k \in OpKeys, v \in Values :
        /\ pc = "ops"
        /\ nops < MaxOps
        /\ nops' = nops + 1
        /\ Called("addStructHashWithJSON", k, v, <<>>, "none",
                  addStructHashWithJSON(store, connUp, k, v))
        /\ UNCHANGED <<connUp, pc, trace, initStore>>

ReadJSONFromHash ==
    \E k \in OpKeys :
        /\ pc = "ops"
        /\ nops < MaxOps
        /\ nops' = nops + 1
        /\ Called("getStructHashWithJSON", k, NoValue, <<>>, "none",
                  getStructHashWithJSON(store, connUp, k))
        /\ UNCHANGED <<connUp, pc, trace, initStore>>

\* The connection is lost: every later conn.Do fails.
Disconnect ==
    /\ connUp
    /\ pc \notin {"dial", "done", "fatal", "panic"}
    /\ connUp' = FALSE
    /\ UNCHANGED <<store, last, written, pc, trace, initStore, nops>>

NextOps ==
    \/ WriteFlattened
    \/ ReadFlattened
    \/ WriteJSONNative
    \/ ReadJSONNative
    \/ WriteJSONInHash
    \/ ReadJSONFromHash
    \/ Disconnect

Spec == InitOps /\ [][NextOps]_vars

----------------------------------------------------------------------------
(* main: the steps of func main, one action each *)

\* What the three keys may hold when main starts: nothing, a hash or a
\* document left by another program.
OldHash == HashEntry(<<[f |-> <<"O", "l", "d">>, v |-> <<"x">>]>>)

OldDoc == JSONEntry(JNum(5))

InitStores == [Keys -> {NoEntry, OldHash, OldDoc}]

InitMain ==
    /\ store \in InitStores
    /\ initStore = store
    /\ connUp = FALSE
    /\ last = NoCall
    /\ written = [k \in Keys |-> NeverWritten]
    /\ pc = "dial"
    /\ trace = <<>>
    /\ nops = 0

\* A faulty variant: the error logged, and main going on.
OnErrorContinue(err, next) == next

\* if err != nil { log.Fatalf(...); return }
OnError(err, next) == IF err # ErrNone THEN "fatal" ELSE next

Step(name, err) == [step |-> name, err |-> err]

\* conn, err := redis.Dial("tcp", *addr)
MainDial ==
    \E err \in {ErrNone, ErrDial} :
        /\ pc = "dial"
        /\ connUp' = (err = ErrNone)
        /\ pc' = OnError(err, "addStructHash")
        /\ trace' = Append(trace, Step("dial", err))
        /\ UNCHANGED <<store, last, written, initStore, nops>>

MainAddStructHash ==
    LET r == addStructHash(store, connUp, "JohnDoeHash", JohnDoe) IN
    /\ pc = "addStructHash"
    /\ Called("addStructHash", "JohnDoeHash", JohnDoe, <<>>, "none", r)
    /\ pc' = OnError(r.err, "addStructReJSON")
    /\ trace' = Append(trace, Step("addStructHash", r.err))
    /\ UNCHANGED <<connUp, initStore, nops>>

MainAddStructReJSON ==
    LET r == addStructReJSON(store, connUp, "JohnDoeJSON", JohnDoe) IN
    /\ pc = "addStructReJSON"
    /\ Called("addStructReJSON", "JohnDoeJSON", JohnDoe, TDot, "none", r)
    /\ pc' = OnError(r.err, "getStructHash")
    /\ trace' = Append(trace, Step("addStructReJSON", r.err))
    /\ UNCHANGED <<connUp, initStore, nops>>

\* outStudentMap, err := redis.StringMap(getStructHash(conn, "JohnDoeHash"))
MainGetStructHash ==
    LET r == getStructHash(store, connUp, "JohnDoeHash") IN
    /\ pc = "getStructHash"
    /\ Called("getStructHash", "JohnDoeHash", NoValue, <<>>, "none", r)
    /\ pc' = OnError(StringMap(r).err, "getStructReJSON")
    /\ trace' = Append(trace, Step("getStructHash", StringMap(r).err))
    /\ UNCHANGED <<connUp, initStore, nops>>

MainGetStructReJSON ==
    LET r == getStructReJSON(store, connUp, "JohnDoeJSON") IN
    /\ pc = "getStructReJSON"
    /\ Called("getStructReJSON", "JohnDoeJSON", NoValue, <<>>, "none", r)
    /\ pc' = OnError(r.err, "unmarshalJSON")
    /\ trace' = Append(trace, Step("getStructReJSON", r.err))
    /\ UNCHANGED <<connUp, initStore, nops>>

\* json.Unmarshal(out.([]byte), &Student{}); the type assertion panics on a
\* reply that is no bulk string.
Decode(name, next) ==
    /\ pc = name
    /\ IF last.reply.kind # "bulk"
       THEN /\ pc' = "panic"
            /\ trace' = Append(trace, Step(name, "panic"))
       ELSE /\ pc' = OnError(Unmarshal(last.reply.bulk).err, next)
            /\ trace' = Append(trace, Step(name, Unmarshal(last.reply.bulk).err))
    /\ UNCHANGED <<store, connUp, last, written, initStore, nops>>

MainUnmarshalJSON == Decode("unmarshalJSON", "addStructHashWithJSON")

MainAddStructHashWithJSON ==
    LET r == addStructHashWithJSON(store, connUp, "JohnDoeHashJSON", JohnDoe) IN
    /\ pc = "addStructHashWithJSON"
    /\ Called("addStructHashWithJSON", "JohnDoeHashJSON", JohnDoe, <<>>, "none", r)
    /\ pc' = OnError(r.err, "getStructHashWithJSON")
    /\ trace' = Append(trace, Step("addStructHashWithJSON", r.err))
    /\ UNCHANGED <<connUp, initStore, nops>>

MainGetStructHashWithJSON ==
    LET r == getStructHashWithJSON(store, connUp, "JohnDoeHashJSON") IN
    /\ pc = "getStructHashWithJSON"
    /\ Called("getStructHashWithJSON", "JohnDoeHashJSON", NoValue, <<>>, "none", r)
    /\ pc' = OnError(r.err, "unmarshalHashJSON")
    /\ trace' = Append(trace, Step("getStructHashWithJSON", r.err))
    /\ UNCHANGED <<connUp, initStore, nops>>

MainUnmarshalHashJSON == Decode("unmarshalHashJSON", "done")

NextMain ==
    \/ MainDial
    \/ MainAddStructHash
    \/ MainAddStructReJSON
    \/ MainGetStructHash
    \/ MainGetStructReJSON
    \/ MainUnmarshalJSON
    \/ MainAddStructHashWithJSON
    \/ MainGetStructHashWithJSON
    \/ MainUnmarshalHashJSON
    \/ Disconnect

SpecMain == InitMain /\ [][NextMain]_vars

----------------------------------------------------------------------------
(* Properties *)

\* The latest write the server applied at the key of the last call.
LastWrite == written[last.key]

\* The last call returned without error, on a key whose latest write is op.
ReadAfter(readOp, writeOp) ==
    /\ last.op = readOp
    /\ last.err = ErrNone
    /\ LastWrite.op = writeOp

\* Two JSON values with the same members, in any order.
RECURSIVE JSONEquiv(_, _)
JSONEquiv(a, b) ==
    IF a.t # b.t THEN FALSE
    ELSE IF a.t = "str" THEN a.s = b.s
    ELSE IF a.t = "num" THEN a.n = b.n
    ELSE /\ {a.m[i].k : i \in 1..Len(a.m)} = {b.m[i].k : i \in 1..Len(b.m)}
         /\ \A k \in {a.m[i].k : i \in 1..Len(a.m)} : JSONEquiv(Member(a, k), Member(b, k))

\* The document {"info":{"FirstName":"John","LastName":"Doe","Major":"CSE"},"rank":1}
JohnDoeDoc ==
    JObj(<<[k |-> Tinfo,
            v |-> JObj(<<[k |-> TFirstName, v |-> JStr(TJohn)],
                         [k |-> TLastName, v |-> JStr(TDoe)],
                         [k |-> TMajor, v |-> JStr(TCSE)]>>)],
           [k |-> Trank, v |-> JNum(1)]>>)

C3_FlattenedIsOpaque ==
    (ReadAfter("getStructHash", "addStructHash") /\ ~LastWrite.value.Info.nil)
    => LET m == StringMap(last).map IN
       /\ TInfo \in DOMAIN m
       /\ m[TInfo] = SprintDetails(LastWrite.value.Info)
       /\ TRank \in DOMAIN m
       /\ m[TRank] = Itoa(LastWrite.value.Rank)
       /\ DOMAIN m \cap {TFirstName, TLastName, TMajor} = {}

\* C4: getStructHash(key) returns the fields of the hash stored at key.
C4_ReadsGivenKey ==
    ReadAfter("getStructHash", "addStructHash")
    => last.reply.array = FlatHash(store[last.key].hash)

\* C5: after addStructReJSON(key, r) with r.Info.Major = "CSE", a read of the
\* path info.Major returns exactly the JSON string "CSE".
C5_SubPathRead ==
    (/\ ReadAfter("getStructReJSON", "addStructReJSON")
     /\ last.path = TInfoMajor
     /\ ~LastWrite.value.Info.nil
     /\ LastWrite.value.Info.Major = TCSE)
    => last.reply.bulk = CSEText

\* C6 as claimed: a write wanted "only if absent" on a key that holds a
\* document returns an error and leaves the document as it was.
C6_OnlyIfAbsentRejected ==
    (last.op = "addStructReJSON" /\ last.req = "NX" /\ last.before[last.key].type = "json")
    => /\ last.err # ErrNone
       /\ store[last.key] = last.before[last.key]

\* C6 amended: addStructReJSON has no conditional variant: whatever the caller
\* wants, a write of an encodable value over a live connection on a key that
\* holds a document returns no error and replaces the document.
C6_AlwaysOverwrites ==
    (/\ last.op = "addStructReJSON"
     /\ last.before[last.key].type = "json"
     /\ Marshal(last.value).err = ErrNone
     /\ last.up)
    => /\ last.err = ErrNone
       /\ store[last.key] = JSONEntry(ParseJSON(Marshal(last.value).text).val)

\* A write wanted "only if absent" that replaced a different document.
C6_Witness ==
    /\ last.op = "addStructReJSON"
    /\ last.req = "NX"
    /\ last.before[last.key].type = "json"
    /\ last.err = ErrNone
    /\ store[last.key] # last.before[last.key]

\* C7: when json.Marshal fails, addStructHashWithJSON returns that error,
\* hands no command to conn.Do and leaves the store as it was.
C7_NoCommandOnEncodeError ==
    (last.op = "addStructHashWithJSON" /\ Marshal(last.value).err # ErrNone)
    => /\ last.err = Marshal(last.value).err
       /\ last.cmd = "none"
       /\ store = last.before

\* A failed encoding on a key that already holds a hash, over a live
\* connection.
C7_Witness ==
    /\ last.op = "addStructHashWithJSON"
    /\ last.value = ChanValue
    /\ last.up
    /\ last.before[last.key].type = "hash"

\* C8 as claimed: getStructHash on a key that was never written returns an
\* error.
C8_ErrorOnMissingKey ==
    (last.op = "getStructHash" /\ last.before[last.key].type = "none")
    => last.err # ErrNone

\* C8 amended: getStructHash reads "JohnDoeHash" whatever its key; when
\* nothing is stored there and the connection is up it returns no error and
\* an empty reply, which redis.StringMap makes an empty mapping.
C8_MissingKeyReadsEmpty ==
    (last.op = "getStructHash" /\ last.up /\ last.before["JohnDoeHash"].type = "none")
    => /\ last.err = ErrNone
       /\ last.reply = ArrayReply(<<>>)
       /\ StringMap(last) = [err |-> ErrNone, map |-> <<>>]

\* getStructHash on "JohnDoeHash" while the store holds nothing there.
C8_Witness ==
    /\ last.op = "getStructHash"
    /\ last.key = "JohnDoeHash"
    /\ last.up
    /\ last.before["JohnDoeHash"].type = "none"
    /\ last.err = ErrNone

\* C9: a run of main from an empty store that meets no error leaves exactly
\* three keys: the hash "JohnDoeHash" with Info = "&{John Doe CSE}" and
\* Rank = "1", the document "JohnDoeJSON" with info.FirstName = "John",
\* info.LastName = "Doe", info.Major = "CSE" and rank = 1, and the hash
\* "JohnDoeHashJSON" with the one field JSON holding
\* {"info":{"FirstName":"John","LastName":"Doe","Major":"CSE"},"rank":1}.
C9_MainStore ==
    (pc = "done" /\ initStore = EmptyStore)
    => /\ store["JohnDoeHash"] =
            HashEntry(<<[f |-> TInfo, v |-> JohnDoeFlat], [f |-> TRank, v |-> <<"1">>]>>)
       /\ store["JohnDoeJSON"].type = "json"
       /\ JSONEquiv(store["JohnDoeJSON"].doc, JohnDoeDoc)
       /\ store["JohnDoeHashJSON"] = HashEntry(<<[f |-> TJSON, v |-> JohnDoeText]>>)
       /\ \A k \in Keys \ {"JohnDoeHash", "JohnDoeJSON", "JohnDoeHashJSON"} :
              store[k] = NoEntry

\* main ran to its end from an empty store.
C9_Witness == pc = "done" /\ initStore = EmptyStore

\* The steps of main, in the order of the code.
StepOrder ==
    <<"dial", "addStructHash", "addStructReJSON", "getStructHash", "getStructReJSON",
      "unmarshalJSON", "addStructHashWithJSON", "getStructHashWithJSON",
      "unmarshalHashJSON">>

\* The step ran and returned no error.
Completed(name) == \E i \in 1..Len(trace) : trace[i] = Step(name, ErrNone)

\* The key each writing step of main writes.
StepKey(name) ==
    CASE name = "addStructHash" -> "JohnDoeHash"
      [] name = "addStructReJSON" -> "JohnDoeJSON"
      [] name = "addStructHashWithJSON" -> "JohnDoeHashJSON"

\* C10: main runs its steps in the order of the code and stops at the first
\* error: only the last step run can have failed, main is halted exactly when
\* it has, and each key holds what it held at the start unless the step that
\* writes it completed.
C10_HaltsAtFirstError ==
    /\ Len(trace) <= Len(StepOrder)
    /\ \A i \in 1..Len(trace) : trace[i].step = StepOrder[i]
    /\ \A i \in 1..(Len(trace) - 1) : trace[i].err = ErrNone
    /\ (pc \in {"fatal", "panic"})
       <=> (trace # <<>> /\ trace[Len(trace)].err # ErrNone)
    /\ pc = "done" <=> (Len(trace) = Len(StepOrder) /\ trace[Len(trace)].err = ErrNone)
    /\ \A name \in WriteOps :
          IF Completed(name)
          THEN written[StepKey(name)] = [op |-> name, value |-> JohnDoe]
          ELSE store[StepKey(name)] = initStore[StepKey(name)]
    /\ store["Other"] = initStore["Other"]

\* main halted at the read of the hash, after both of its first writes: the
\* third key is as it was.
C10_Witness ==
    /\ pc = "fatal"
    /\ Completed("addStructHash")
    /\ Completed("addStructReJSON")
    /\ Len(trace) = 4
    /\ trace[4].err = ErrClosed

====
